---------------------------- MODULE Spec2Model ----------------------------
(***************************************************************************)
(* gotham static file handler (src/gotham/src/handler/static_file.rs).     *)
(*                                                                         *)
(* One request at a time is followed through FileHandler /                 *)
(* FileSystemHandler::handle, create_file_response (open, metadata,        *)
(* not_modified, response) and the polls of the body stream built by       *)
(* file_stream.  The filesystem and the client are the environment.        *)
(***************************************************************************)
EXTENDS Integers, Sequences, FiniteSets, TLC

(***************************************************************************)
(* Bounds of the model.                                                    *)
(***************************************************************************)
\* longest file the environment creates (bytes)
MaxFileLen == 4
\* capacity of an empty BytesMut (BytesMut::new() keeps its bytes inline:
\* 31 bytes on a 64-bit target, 15 on a 32-bit one); scaled down here
InlineCap == 2
\* block sizes reported by the filesystem: InlineCap .. InlineCap + MaxBlkExtra
MaxBlkExtra == 1
\* modification times: whole seconds MinSecs .. MaxSecs around the epoch
MaxSecs == 1
\* sub-second nanoseconds 0 .. MaxNanos
MaxNanos == 1
\* longest list of path segments in a request
MaxParts == 2

(***************************************************************************)
(* Paths.  A path (std::path::Path / PathBuf, and each segment string the  *)
(* router extracted from the URL) is its text cut at the separators:       *)
(* abs says whether the text starts with "/", segs are the pieces between  *)
(* separators, which may be names, "..", "." or "".                        *)
(***************************************************************************)
Names == {"a", "b"}

Rel(segs) == [abs |-> FALSE, segs |-> segs]

Abs(segs) == [abs |-> TRUE, segs |-> segs]

EmptyPath == Rel(<<>>)

\* PathBuf::push: an absolute argument replaces the buffer, a relative one
\* is appended after a separator.
PathPush(buf, p) ==
    IF p.abs THEN p ELSE [abs |-> buf.abs, segs |-> buf.segs \o p.segs]

\* PathBuf::pop: truncate to the parent; no effect when there is none.
PathPop(buf) ==
    IF buf.segs = <<>> THEN buf
    ELSE [abs |-> buf.abs, segs |-> SubSeq(buf.segs, 1, Len(buf.segs) - 1)]

\* std::path::Component
Comp(t, x) == [t |-> t, x |-> x]

\* Path::components: RootDir for a leading separator, then one component
\* per piece; empty pieces vanish, "." survives only at the very start of a
\* relative path.
RECURSIVE SegComps(_, _, _)
SegComps(segs, i, abs) ==
    IF i > Len(segs) THEN <<>>
    ELSE LET s == segs[i]
             c == IF s = "" THEN <<>>
                  ELSE IF s = "." THEN (IF i = 1 /\ ~abs THEN <<Comp("CurDir", ".")>> ELSE <<>>)
                  ELSE IF s = ".." THEN <<Comp("ParentDir", "..")>>
                  ELSE <<Comp("Normal", s)>>
         IN c \o SegComps(segs, i + 1, abs)

Components(p) ==
    (IF p.abs THEN <<Comp("RootDir", "/")>> ELSE <<>>) \o SegComps(p.segs, 1, p.abs)

\* a component as the path text its as_os_str() is
CompPath(c) == IF c.t = "RootDir" THEN Abs(<<>>) ELSE Rel(<<c.x>>)

\* PathBuf::from_iter(parts): push every part onto an empty buffer
RECURSIVE PathFromIter(_)
PathFromIter(ps) ==
    IF ps = <<>> THEN EmptyPath
    ELSE PathPush(PathFromIter(SubSeq(ps, 1, Len(ps) - 1)), ps[Len(ps)])

\* one step of the fold in normalize_path (lines 190-200)
NormalizeStep_Prepend(result, c) ==
    IF c.t = "Normal" THEN [abs |-> result.abs, segs |-> <<c.x>> \o result.segs]
    ELSE IF c.t = "ParentDir" THEN PathPop(result)
    ELSE result

NormalizeStep_KeepParent(result, c) ==
    IF c.t = "Normal" THEN PathPush(result, Rel(<<c.x>>))
    ELSE IF c.t = "ParentDir" THEN PathPush(result, Rel(<<c.x>>))
    ELSE result

NormalizeStep_KeepLeadingParent(result, c) ==
    IF c.t = "Normal" THEN PathPush(result, Rel(<<c.x>>))
    ELSE IF c.t = "ParentDir"
         THEN (IF result.segs = <<>> THEN PathPush(result, Rel(<<c.x>>))
               ELSE PathPop(result))
    ELSE result

NormalizeStep(result, c) ==
    IF c.t = "Normal" THEN PathPush(result, Rel(<<c.x>>))
    ELSE IF c.t = "ParentDir" THEN PathPop(result)
    ELSE result

RECURSIVE FoldComps(_, _)
FoldComps(acc, cs) ==
    IF cs = <<>> THEN acc
    ELSE FoldComps(NormalizeStep(acc, Head(cs)), Tail(cs))

normalize_path(p) == FoldComps(EmptyPath, Components(p))

\* PathBuf::extend(&PathBuf): push every component of the argument
RECURSIVE PathExtend(_, _)
PathExtend(buf, cs) ==
    IF cs = <<>> THEN buf
    ELSE PathExtend(PathPush(buf, CompPath(Head(cs))), Tail(cs))

\* FileOptions.path of the FileSystemHandler (the root) and of the
\* FileHandler (the single file)
Root == Abs(<<"srv">>)

FilePath == Abs(<<"srv", "a">>)

\* FileSystemHandler::handle, lines 121-126
FsHandlerPath_Raw(ps) == PathExtend(Root, Components(PathFromIter(ps)))

FsHandlerPath(ps) ==
    PathExtend(Root, Components(normalize_path(PathFromIter(ps))))

(***************************************************************************)
(* Metadata, entity tags and conditional requests.                         *)
(*                                                                         *)
(* An Option is a sequence of length 0 (None / Err) or 1 (Some / Ok).      *)
(* A time is whole seconds relative to the epoch plus nanoseconds          *)
(* (SystemTime); a header value is the sequence of its characters.         *)
(***************************************************************************)
None == <<>>

Some(x) == <<x>>

Min(a, b) == IF a < b THEN a ELSE b

Time(s, ns) == [secs |-> s, nanos |-> ns]

Times == {Time(s, ns) : s \in -1 .. MaxSecs, ns \in 0 .. MaxNanos}

\* SystemTime's ordering
TimeLeq(t, u) == t.secs < u.secs \/ (t.secs = u.secs /\ t.nanos <= u.nanos)

\* modified.duration_since(UNIX_EPOCH): Err for a time before the epoch
DurationSinceEpoch(t) == IF t.secs < 0 THEN None ELSE Some(t)

HexDigits == <<"0", "1", "2", "3", "4", "5", "6", "7", "8", "9",
               "a", "b", "c", "d", "e", "f">>

\* format!("{:x}", n)
RECURSIVE Hex(_)
Hex(n) ==
    IF n < 16 THEN <<HexDigits[n + 1]>>
    ELSE Hex(n \div 16) \o <<HexDigits[(n % 16) + 1]>>

FormatTag_NoSeparators(len, d) ==
    <<"W", "/", "\"">> \o Hex(len) \o Hex(d.secs) \o Hex(d.nanos) \o <<"\"">>

\* format!("W/\"{0:x}-{1:x}.{2:x}\"", len, secs, nanos), lines 226-231
FormatTag(len, d) ==
    <<"W", "/", "\"">> \o Hex(len) \o <<"-">> \o Hex(d.secs)
        \o <<".">> \o Hex(d.nanos) \o <<"\"">>

\* entity_tag, lines 223-234; m is the Metadata: [len, mtime, blk]
entity_tag(m) ==
    IF m.mtime = None THEN None
    ELSE LET d == DurationSinceEpoch(m.mtime[1])
         IN IF d = None THEN None ELSE Some(FormatTag(m.len, d[1]))

\* An If-Modified-Since value: the text of an HTTP date (whole seconds
\* since the epoch) or text that is no date.
HttpDate(s) == [kind |-> "date", secs |-> s]

Garbage == [kind |-> "garbage", secs |-> 0]

\* httpdate::fmt_http_date: the date carries the whole seconds only
fmt_http_date(t) == HttpDate(t.secs)

\* httpdate::parse_http_date
parse_http_date(v) == IF v.kind = "date" THEN Some(Time(v.secs, 0)) ELSE None

\* the request's HeaderMap: inm are the If-None-Match values, ims the
\* If-Modified-Since value (an Option)
Headers(inm, ims) == [inm |-> inm, ims |-> ims]

NoHeaders == Headers(<<>>, None)

Bogus == <<"b", "o", "g", "u", "s">>

\* headers.get_all(IF_NONE_MATCH).iter().any(|v| v == &etag), line 207
AnyEqual_First(vals, etag) == vals # <<>> /\ vals[1] = etag

AnyEqual(vals, etag) == \E i \in 1 .. Len(vals) : vals[i] = etag

ModifiedSinceArm_Strict(m, h) ==
    IF h.ims = None THEN FALSE
    ELSE LET t == parse_http_date(h.ims[1])
         IN IF t = None THEN FALSE
            ELSE IF m.mtime = None THEN FALSE
            ELSE TimeLeq(m.mtime[1], t[1]) /\ m.mtime[1] # t[1]

\* the If-Modified-Since arm of not_modified, lines 209-219
ModifiedSinceArm(m, h) ==
    IF h.ims = None THEN FALSE
    ELSE LET t == parse_http_date(h.ims[1])
         IN IF t = None THEN FALSE
            ELSE IF m.mtime = None THEN FALSE
            ELSE TimeLeq(m.mtime[1], t[1])

NoneMatchArm_NoTagMatches(m, h) ==
    LET etag == entity_tag(m)
    IN IF etag = None THEN TRUE ELSE AnyEqual(h.inm, etag[1])

\* the If-None-Match arm of not_modified, lines 206-208
NoneMatchArm(m, h) ==
    LET etag == entity_tag(m)
    IN IF etag = None THEN FALSE ELSE AnyEqual(h.inm, etag[1])

\* not_modified, lines 203-221
not_modified_Either(m, h) ==
    (h.inm # <<>> /\ NoneMatchArm(m, h)) \/ ModifiedSinceArm(m, h)

not_modified(m, h) ==
    IF h.inm # <<>> THEN NoneMatchArm(m, h) ELSE ModifiedSinceArm(m, h)

\* error_status, lines 176-182
ErrorKinds == {"NotFound", "PermissionDenied", "Interrupted", "Other"}

error_status_AllNotFound(kind) == 404

error_status(kind) ==
    IF kind = "NotFound" THEN 404
    ELSE IF kind = "PermissionDenied" THEN 403
    ELSE 500

\* get_block_size / optimal_buf_size, lines 285-302
BlockSizes == InlineCap .. InlineCap + MaxBlkExtra

optimal_buf_size(m) == Min(m.blk, m.len)

(***************************************************************************)
(* The body stream's buffer (bytes::BytesMut) and the arithmetic of one    *)
(* poll of file_stream.                                                    *)
(***************************************************************************)
\* BytesMut::reserve(additional) on an empty buffer that must grow: the new
\* allocation holds len + additional bytes, with len = 0
ReserveCap(cap, additional) == additional

\* lines 260-262: the spare capacity the read is given
CapForRead(cap, bs) == IF cap < bs THEN ReserveCap(cap, bs) ELSE cap

\* whether the buffer is still the inline one after lines 260-262
InlineForRead(inline, cap, bs) == inline /\ ~(cap < bs)

\* buf.take(), line 273: the filled part leaves, the rest of the capacity
\* stays; an inline buffer always offers InlineCap
CapAfterTake(cap, n, inline) == IF inline THEN InlineCap ELSE cap - n

\* lines 273-279: the length of the chunk emitted after a read of n bytes
\* with r bytes still expected
ChunkLen_NoTruncate(n, r) == n

ChunkLen(n, r) == IF n > r THEN r ELSE n

\* lines 274-279: the bytes still expected after that read
RemainingAfter_Zero(n, r) == 0

RemainingAfter_Keep(n, r) == r

RemainingAfter_Unchecked(n, r) == r - n

RemainingAfter(n, r) == IF n > r THEN 0 ELSE r - n

(***************************************************************************)
(* The filesystem: what each path holds.  A path the map lacks is absent.  *)
(* kind "openfault" / "metafault" is a file whose open / metadata call     *)
(* fails with the I/O error kind err.                                      *)
(***************************************************************************)
Entry(k, e, l, t) == [kind |-> k, err |-> e, len |-> l, mtime |-> t]

Absent == Entry("absent", "NotFound", 0, None)

Denied == Entry("denied", "PermissionDenied", 0, None)

OpenFault(k) == Entry("openfault", k, 0, None)

MetaFault(k) == Entry("metafault", k, 0, None)

Dir == Entry("dir", "", 1, Some(Time(0, 0)))

File(l, t) == Entry("file", "", l, t)

MTimes == {None} \cup {Some(t) : t \in Times}

FsPaths == {<<"srv">>, <<"srv", "a">>, <<"srv", "b">>, <<"secret">>}

\* how the operating system walks an absolute path: "." and "" stay, ".."
\* goes up and stays at the top
RECURSIVE OsWalk(_, _)
OsWalk(at, segs) ==
    IF segs = <<>> THEN at
    ELSE LET s == Head(segs)
             to == IF s = "" \/ s = "." THEN at
                   ELSE IF s = ".." THEN (IF at = <<>> THEN at ELSE SubSeq(at, 1, Len(at) - 1))
                   ELSE Append(at, s)
         IN OsWalk(to, Tail(segs))

OsResolve(p) == OsWalk(<<>>, p.segs)

Lookup(f, p) == IF OsResolve(p) \in DOMAIN f THEN f[OsResolve(p)] ELSE Absent

\* File::open(path), line 141: the error, if any
OpenError(e) ==
    IF e.kind \in {"absent", "denied", "openfault"} THEN Some(e.err) ELSE None

\* file.metadata(), line 141: the error, if any
MetadataError(e) == IF e.kind = "metafault" THEN Some(e.err) ELSE None

\* the bytes a read at offset pos can still return
Available(e, pos) == IF e.kind = "file" /\ e.len > pos THEN e.len - pos ELSE 0

(***************************************************************************)
(* Responses.                                                              *)
(***************************************************************************)
Response(st, cl, tag, b) == [status |-> st, clen |-> cl, etag |-> tag, body |-> b]

NoResp == Response(0, None, None, "none")

NotModifiedResponse_Ok == Response(200, None, None, "empty")

\* lines 144-147
NotModifiedResponse == Response(304, None, None, "empty")

OkResponse_NoEtag(m) == Response(200, Some(m.len), None, "stream")

\* lines 149-163
OkResponse(m) == Response(200, Some(m.len), entity_tag(m), "stream")

\* lines 169-172
ErrorResponse(kind) == Response(error_status(kind), None, None, "error")

(***************************************************************************)
(* State.                                                                  *)
(***************************************************************************)
VARIABLES
    fs,         \* the filesystem: FsPaths -> Entry
    handler,    \* "file" (FileHandler) or "dir" (FileSystemHandler)
    pc,         \* idle, opening, metadata, streaming, done, failed
    parts,      \* FilePathExtractor.parts of the request
    hdrs,       \* the request's headers
    rel,        \* normalize_path's result for the request
    path,       \* the path handed to create_file_response
    file,       \* the open File: Some(the filesystem path it is on)
    meta,       \* the Metadata fetched: Some([len, mtime, blk])
    resp,       \* the response
    len,        \* file_stream: bytes still expected
    buf_size,   \* file_stream: the chunk size chosen at stream start
    bufCap,     \* file_stream: buf.remaining_mut()
    bufInline,  \* file_stream: buf has never been reserved
    fpos,       \* the File's read offset
    st,         \* the stream: none, ready, pending, end, eof, error
    emitted,    \* history: bytes emitted in chunks so far
    lastChunk,  \* history: length of the chunk emitted last (0: none yet)
    chunks,     \* history: number of chunks emitted so far
    rd,         \* history: how the stream's last read_buf call came back:
                \* none (no call yet), pending, error, zero, data
    openLen,    \* history: the file's length when it was opened
    changed,    \* history: the file's length changed since it was opened
    cache,      \* the client: Some([tag, len, mtime]) of a 200 it kept
    prev        \* history: Some([rel, hdrs, status, trav]) of the previous
                \* directory request; trav: it had a ".." segment

vars == <<fs, handler, pc, parts, hdrs, rel, path, file, meta, resp, len,
          buf_size, bufCap, bufInline, fpos, st, emitted, lastChunk, chunks,
          rd, openLen, changed, cache, prev>>

reqVars == <<parts, hdrs, rel, path>>

streamVars == <<len, buf_size, bufCap, bufInline, fpos, st, emitted, lastChunk,
                chunks, rd>>

(***************************************************************************)
(* The handler.                                                            *)
(***************************************************************************)
\* whether some piece of the request's segments is ".."
HasParent(ps) ==
    \E i \in 1 .. Len(ps) : \E j \in 1 .. Len(ps[i].segs) : ps[i].segs[j] = ".."

Finished == pc \in {"done", "failed"}

\* Handler::handle of FileHandler (lines 131-135) and FileSystemHandler
\* (lines 119-129) up to File::open being started (lines 137-141)
Handle(h, ps) ==
    /\ pc = "idle"
    /\ parts' = ps
    /\ hdrs' = h
    /\ rel' = IF handler = "dir" THEN normalize_path(PathFromIter(ps)) ELSE EmptyPath
    /\ path' = IF handler = "dir" THEN FsHandlerPath(ps) ELSE FilePath
    /\ pc' = "opening"
    /\ UNCHANGED <<fs, handler, file, meta, resp, streamVars, openLen, changed,
                   cache, prev>>

\* File::open succeeds (line 141)
OpenOk ==
    /\ pc = "opening"
    /\ OpenError(Lookup(fs, path)) = None
    /\ file' = Some(OsResolve(path))
    /\ openLen' = Lookup(fs, path).len
    /\ pc' = "metadata"
    /\ UNCHANGED <<fs, handler, reqVars, meta, resp, streamVars, changed, cache, prev>>

\* File::open fails (lines 141, 167-172)
OpenFail ==
    /\ pc = "opening"
    /\ OpenError(Lookup(fs, path)) # None
    /\ resp' = ErrorResponse(OpenError(Lookup(fs, path))[1])
    /\ pc' = "failed"
    /\ UNCHANGED <<fs, handler, reqVars, file, meta, streamVars, openLen, changed, cache, prev>>

\* file.metadata() fails (lines 141, 167-172)
MetadataFail ==
    /\ pc = "metadata"
    /\ MetadataError(fs[file[1]]) # None
    /\ resp' = ErrorResponse(MetadataError(fs[file[1]])[1])
    /\ file' = None
    /\ pc' = "failed"
    /\ UNCHANGED <<fs, handler, reqVars, meta, streamVars, openLen, changed, cache, prev>>

\* file.metadata() succeeds and the closure of lines 142-165 runs; blk is
\* the block size the metadata reports, keep whether the client keeps the
\* ETag of a 200
MetadataOk(blk, keep) ==
    /\ pc = "metadata"
    /\ MetadataError(fs[file[1]]) = None
    /\ LET e == fs[file[1]]
           m == [len |-> e.len, mtime |-> e.mtime, blk |-> blk]
       IN /\ meta' = Some(m)
          /\ IF not_modified(m, hdrs)
             THEN /\ resp' = NotModifiedResponse
                  /\ file' = None
                  /\ pc' = "done"
                  /\ UNCHANGED <<streamVars, cache>>
             ELSE /\ resp' = OkResponse(m)
                  /\ len' = m.len
                  /\ buf_size' = optimal_buf_size(m)
                  /\ bufCap' = InlineCap
                  /\ bufInline' = TRUE
                  /\ st' = "ready"
                  /\ pc' = "streaming"
                  /\ cache' = IF keep /\ entity_tag(m) # None
                              THEN Some([tag |-> entity_tag(m)[1], len |-> m.len,
                                         mtime |-> m.mtime])
                              ELSE cache
                  /\ UNCHANGED <<file, fpos, emitted, lastChunk, chunks, rd>>
    /\ UNCHANGED <<fs, handler, reqVars, openLen, changed, prev>>

(***************************************************************************)
(* One poll of the stream of file_stream (lines 256-282).                  *)
(***************************************************************************)
Polling == pc = "streaming" /\ st \in {"ready", "pending"}

\* lines 257-259
PollEnd ==
    /\ Polling
    /\ len = 0
    /\ st' = "end"
    /\ file' = None
    /\ pc' = "done"
    /\ UNCHANGED <<fs, handler, reqVars, meta, resp, len, buf_size, bufCap, bufInline,
                   fpos, emitted, lastChunk, chunks, rd, openLen, changed, cache, prev>>

\* lines 260-263 with the read not ready yet
PollNotReady ==
    /\ Polling
    /\ len # 0
    /\ bufCap' = CapForRead(bufCap, buf_size)
    /\ bufInline' = InlineForRead(bufInline, bufCap, buf_size)
    /\ st' = "pending"
    /\ rd' = "pending"
    /\ UNCHANGED <<fs, handler, pc, reqVars, file, meta, resp, len, buf_size, fpos,
                   emitted, lastChunk, chunks, openLen, changed, cache, prev>>

\* lines 260-266 with a failed read swallowed and left to the next poll
PollErr_Retry ==
    /\ Polling
    /\ len # 0
    /\ bufCap' = CapForRead(bufCap, buf_size)
    /\ bufInline' = InlineForRead(bufInline, bufCap, buf_size)
    /\ rd' = "error"
    /\ st' = "pending"
    /\ UNCHANGED <<fs, handler, pc, reqVars, file, meta, resp, len, buf_size, fpos,
                   emitted, lastChunk, chunks, openLen, changed, cache, prev>>

\* lines 260-266 with the read failing
PollErr ==
    /\ Polling
    /\ len # 0
    /\ bufCap' = CapForRead(bufCap, buf_size)
    /\ bufInline' = InlineForRead(bufInline, bufCap, buf_size)
    /\ rd' = "error"
    /\ st' = "error"
    /\ file' = None
    /\ pc' = "done"
    /\ UNCHANGED <<fs, handler, reqVars, meta, resp, len, buf_size, fpos,
                   emitted, lastChunk, chunks, openLen, changed, cache, prev>>

\* lines 260-281 without the n == 0 exit of lines 268-271
PollEof_EmptyChunk ==
    /\ Polling
    /\ len # 0
    /\ fs[file[1]].kind = "file"
    /\ Available(fs[file[1]], fpos) = 0
    /\ bufCap' = CapAfterTake(CapForRead(bufCap, buf_size), 0,
                              InlineForRead(bufInline, bufCap, buf_size))
    /\ bufInline' = InlineForRead(bufInline, bufCap, buf_size)
    /\ rd' = "zero"
    /\ st' = "ready"
    /\ lastChunk' = 0
    /\ chunks' = chunks + 1
    /\ UNCHANGED <<fs, handler, pc, reqVars, file, meta, resp, len, buf_size, fpos,
                   emitted, openLen, changed, cache, prev>>

\* lines 260-271 with the read at the end of the file
PollEof ==
    /\ Polling
    /\ len # 0
    /\ fs[file[1]].kind = "file"
    /\ Available(fs[file[1]], fpos) = 0
    /\ bufCap' = CapForRead(bufCap, buf_size)
    /\ bufInline' = InlineForRead(bufInline, bufCap, buf_size)
    /\ rd' = "zero"
    /\ st' = "eof"
    /\ file' = None
    /\ pc' = "done"
    /\ UNCHANGED <<fs, handler, reqVars, meta, resp, len, buf_size, fpos,
                   emitted, lastChunk, chunks, openLen, changed, cache, prev>>

\* lines 260-281 with the read returning n > 0 bytes
PollRead(n) ==
    /\ Polling
    /\ len # 0
    /\ n >= 1
    /\ n <= Min(CapForRead(bufCap, buf_size), Available(fs[file[1]], fpos))
    /\ fpos' = fpos + n
    /\ rd' = "data"
    /\ lastChunk' = ChunkLen(n, len)
    /\ emitted' = emitted + ChunkLen(n, len)
    /\ chunks' = chunks + 1
    /\ len' = RemainingAfter(n, len)
    /\ bufCap' = CapAfterTake(CapForRead(bufCap, buf_size), n,
                              InlineForRead(bufInline, bufCap, buf_size))
    /\ bufInline' = InlineForRead(bufInline, bufCap, buf_size)
    /\ st' = "ready"
    /\ UNCHANGED <<fs, handler, pc, reqVars, file, meta, resp, buf_size,
                   openLen, changed, cache, prev>>

\* The handler's future has resolved (lines 167-173) and the transport has
\* sent the response and dropped the body: the request is over.
Close ==
    /\ Finished
    /\ pc' = "idle"
    /\ parts' = <<>> /\ hdrs' = NoHeaders /\ rel' = EmptyPath /\ path' = EmptyPath
    /\ file' = None /\ meta' = None /\ resp' = NoResp
    /\ len' = 0 /\ buf_size' = 0 /\ bufCap' = 0 /\ bufInline' = TRUE
    /\ fpos' = 0 /\ st' = "none" /\ emitted' = 0 /\ lastChunk' = 0
    /\ chunks' = 0 /\ rd' = "none"
    /\ openLen' = 0 /\ changed' = FALSE
    /\ prev' = IF handler = "dir"
               THEN Some([rel |-> rel, hdrs |-> hdrs, status |-> resp.status,
                          trav |-> HasParent(parts)])
               ELSE prev
    /\ UNCHANGED <<fs, handler, cache>>

(***************************************************************************)
(* The environment: other processes writing the served files.              *)
(***************************************************************************)
FileHeld(p) == file = Some(p)

AppendByte(p, max) ==
    /\ fs[p].kind = "file"
    /\ fs[p].len < max
    /\ fs' = [fs EXCEPT ![p].len = @ + 1]
    /\ changed' = (changed \/ FileHeld(p))
    /\ UNCHANGED <<handler, pc, reqVars, file, meta, resp, streamVars, openLen, cache, prev>>

TruncateByte(p) ==
    /\ fs[p].kind = "file"
    /\ fs[p].len > 0
    /\ fs' = [fs EXCEPT ![p].len = @ - 1]
    /\ changed' = (changed \/ FileHeld(p))
    /\ UNCHANGED <<handler, pc, reqVars, file, meta, resp, streamVars, openLen, cache, prev>>

Touch(p, t) ==
    /\ fs[p].kind = "file"
    /\ fs[p].mtime # None
    /\ fs[p].mtime # Some(t)
    /\ fs' = [fs EXCEPT ![p].mtime = Some(t)]
    /\ UNCHANGED <<handler, pc, reqVars, file, meta, resp, streamVars, openLen,
                   changed, cache, prev>>

\* the file rewritten with l bytes
Resize(p, l) ==
    /\ fs[p].kind = "file"
    /\ fs[p].len # l
    /\ fs' = [fs EXCEPT ![p].len = l]
    /\ changed' = (changed \/ FileHeld(p))
    /\ UNCHANGED <<handler, pc, reqVars, file, meta, resp, streamVars, openLen, cache, prev>>

(***************************************************************************)
(* Serving one file (FileHandler) to clients that stream its body.         *)
(***************************************************************************)
TheFile == OsResolve(FilePath)

StreamTime == Some(Time(1, 0))

StreamEntries ==
    {File(l, StreamTime) : l \in 0 .. MaxFileLen}
        \cup {Absent, Denied}
        \cup {OpenFault(k) : k \in {"Interrupted", "Other"}}
        \cup {MetaFault(k) : k \in ErrorKinds}

StreamHeaders == {NoHeaders, Headers(<<>>, Some(HttpDate(1)))}

FsWith(e) == [p \in FsPaths |-> IF p = TheFile THEN e
                                ELSE IF p = <<"srv">> THEN Dir ELSE Absent]

InitRequest ==
    /\ pc = "idle"
    /\ parts = <<>> /\ hdrs = NoHeaders /\ rel = EmptyPath /\ path = EmptyPath
    /\ file = None /\ meta = None /\ resp = NoResp
    /\ len = 0 /\ buf_size = 0 /\ bufCap = 0 /\ bufInline = TRUE
    /\ fpos = 0 /\ st = "none" /\ emitted = 0 /\ lastChunk = 0
    /\ chunks = 0 /\ rd = "none"
    /\ openLen = 0 /\ changed = FALSE
    /\ cache = None /\ prev = None

Init ==
    /\ handler = "file"
    /\ fs \in {FsWith(e) : e \in StreamEntries}
    /\ InitRequest

Next ==
    \/ \E h \in StreamHeaders : Handle(h, <<>>)
    \/ OpenOk
    \/ OpenFail
    \/ MetadataFail
    \/ \E blk \in BlockSizes : MetadataOk(blk, FALSE)
    \/ PollEnd
    \/ PollNotReady
    \/ PollErr
    \/ PollEof
    \/ \E n \in 1 .. MaxFileLen : PollRead(n)
    \/ AppendByte(TheFile, MaxFileLen)
    \/ TruncateByte(TheFile)
    \/ Close

Spec == Init /\ [][Next]_vars

\* a poll of the stream that returns Ready: the clean end, or the read_buf
\* call of line 263 coming back with an error, 0 bytes or data
PollCompletes ==
    \/ PollEnd
    \/ PollErr
    \/ PollEof
    \/ \E n \in 1 .. MaxFileLen : PollRead(n)

\* The same system with a consumer that keeps polling the body (hyper polls
\* the wrapped stream until it ends or fails) and reads that do not stay
\* pending forever (the blocking read of tokio-fs returns): a poll that
\* returns Ready is always possible while the stream is live, and weak
\* fairness makes one happen.
SpecLive == Init /\ [][Next]_vars /\ WF_vars(PollCompletes)

(***************************************************************************)
(* Serving one file to clients that send conditional headers and may keep  *)
(* the ETag of a 200 to replay it; the file changes between requests.      *)
(***************************************************************************)
CondEntries == {File(l, t) : l \in 0 .. 1, t \in MTimes}

\* what a client can make of a weak tag it kept: the strong form, without
\* the W/ prefix, and the tag with the prefix in lower case
StrongForm(tag) == SubSeq(tag, 3, Len(tag))

LowerPrefix(tag) == <<"w">> \o Tail(tag)

InmChoices ==
    {<<>>, <<Bogus>>}
        \cup (IF cache = None THEN {}
              ELSE {<<cache[1].tag>>, <<Bogus, cache[1].tag>>,
                    <<StrongForm(cache[1].tag)>>, <<LowerPrefix(cache[1].tag)>>})

ImsChoices == {None, Some(Garbage)} \cup {Some(HttpDate(s)) : s \in 0 .. MaxSecs}

CondHeaders == {Headers(inm, ims) : inm \in InmChoices, ims \in ImsChoices}

InitCond ==
    /\ handler = "file"
    /\ fs \in {FsWith(e) : e \in CondEntries}
    /\ InitRequest

NextCond ==
    \/ \E h \in CondHeaders : Handle(h, <<>>)
    \/ OpenOk
    \/ \E blk \in BlockSizes, keep \in BOOLEAN : MetadataOk(blk, keep)
    \/ PollEnd
    \/ PollErr
    \/ \E n \in 1 .. MaxFileLen : PollRead(n)
    \/ Close
    \/ \E t \in Times : pc = "idle" /\ Touch(TheFile, t)
    \/ pc = "idle" /\ AppendByte(TheFile, 1)
    \/ pc = "idle" /\ TruncateByte(TheFile)

SpecCond == InitCond /\ [][NextCond]_vars

(***************************************************************************)
(* Serving one file to a client that keeps ETags, the file being rewritten *)
(* and touched between requests: sizes, seconds and nanoseconds of one and *)
(* of two hexadecimal digits, and times before the epoch.                  *)
(***************************************************************************)
TagNumbers == {0, 1, 16, 17}

TagTimes == {Time(s, ns) : s \in {-1} \cup TagNumbers, ns \in TagNumbers}

TagEntries == {File(l, t) : l \in TagNumbers, t \in {None} \cup {Some(u) : u \in TagTimes}}

InitTag ==
    /\ handler = "file"
    /\ fs \in {FsWith(e) : e \in TagEntries}
    /\ InitRequest

NextTag ==
    \/ Handle(NoHeaders, <<>>)
    \/ OpenOk
    \/ \E keep \in BOOLEAN : MetadataOk(InlineCap, keep)
    \/ PollEnd
    \/ PollErr
    \/ Close
    \/ \E t \in TagTimes : pc = "idle" /\ Touch(TheFile, t)
    \/ \E l \in TagNumbers : pc = "idle" /\ Resize(TheFile, l)

SpecTag == InitTag /\ [][NextTag]_vars

(***************************************************************************)
(* Serving a directory tree (FileSystemHandler) that does not change.      *)
(* /srv is the root; /secret exists outside it.                            *)
(***************************************************************************)
PartTokens ==
    {Rel(<<"a">>), Rel(<<"secret">>), Rel(<<"..">>), Rel(<<".">>),
     Abs(<<"secret">>), Rel(<<"..", "secret">>)}

PartSeqs == UNION {[1 .. k -> PartTokens] : k \in 0 .. MaxParts}

DirEntries == {File(1, StreamTime), Denied, MetaFault("Other")}

FsTree(e) == [p \in FsPaths |-> IF p = <<"srv">> THEN Dir
                                ELSE IF p = <<"srv", "a">> THEN e
                                ELSE IF p = <<"secret">> THEN File(1, StreamTime)
                                ELSE Absent]

InitDir ==
    /\ handler = "dir"
    /\ fs \in {FsTree(e) : e \in DirEntries}
    /\ InitRequest

NextDir ==
    \/ \E h \in StreamHeaders, ps \in PartSeqs : Handle(h, ps)
    \/ OpenOk
    \/ OpenFail
    \/ MetadataFail
    \/ \E blk \in BlockSizes : MetadataOk(blk, FALSE)
    \/ PollEnd
    \/ PollNotReady
    \/ PollErr
    \/ \E n \in 1 .. MaxFileLen : PollRead(n)
    \/ Close

SpecDir == InitDir /\ [][NextDir]_vars

(***************************************************************************)
(* Properties.                                                             *)
(***************************************************************************)
StreamStarted == st # "none"

TotalLen == meta[1].len

\* C1: the bytes emitted in chunks never exceed the total length the stream
\* was started with, whatever the reads return and however the file grows.
C1_EmittedAtMostTotal == StreamStarted => emitted <= TotalLen

\* C1 witness: a read returned more bytes than were still expected (the
\* file was appended to) and the stream emitted exactly the total length.
C1_Witness ==
    /\ StreamStarted /\ changed
    /\ fpos > emitted
    /\ emitted = TotalLen /\ TotalLen > 0

C3_ChunkAtMostBufSize ==
    StreamStarted =>
        /\ buf_size = Min(meta[1].blk, TotalLen)
        /\ lastChunk <= buf_size

\* C3 witness: a chunk of exactly the chunk size, cut from a longer read.
C3_Witness ==
    /\ StreamStarted
    /\ lastChunk = buf_size /\ lastChunk > 0
    /\ fpos > emitted

\* the I/O error a failed request met: the open's or the metadata fetch's
FailureKind == Lookup(fs, path).err

\* C9: a failed open or metadata fetch ends the request as Failed with 404
\* for NotFound, 403 for PermissionDenied, 500 for any other kind; the
\* request yields no 200 or 304 and no stream.
C9_ErrorMapping ==
    /\ pc = "failed" =>
          /\ Lookup(fs, path).kind \in {"absent", "denied", "openfault", "metafault"}
          /\ FailureKind = "NotFound" => resp.status = 404
          /\ FailureKind = "PermissionDenied" => resp.status = 403
          /\ FailureKind \notin {"NotFound", "PermissionDenied"} => resp.status = 500
          /\ resp.status \notin {200, 304}
          /\ resp.body = "error"
          /\ ~StreamStarted
    /\ Lookup(fs, path).kind \in {"absent", "denied", "openfault", "metafault"} =>
          /\ resp.status \notin {200, 304}
          /\ ~StreamStarted

\* C9 witness: the metadata fetch failed with PermissionDenied.
C9_Witness ==
    /\ pc = "failed"
    /\ Lookup(fs, path).kind = "metafault"
    /\ FailureKind = "PermissionDenied"
    /\ resp.status = 403

\* the closure of lines 142-165 has built a response
Responded == meta # None /\ resp.status # 0

FileTime == meta[1].mtime[1]

\* C4: with If-None-Match present, If-Modified-Since is ignored: when no
\* If-None-Match value equals the file's entity tag the request is served
\* 200 with the body stream, whatever If-Modified-Since says.
C4_NoneMatchPrecedence ==
    (/\ Responded
     /\ hdrs.inm # <<>>
     /\ \A i \in 1 .. Len(hdrs.inm) : Some(hdrs.inm[i]) # entity_tag(meta[1]))
        => resp.status = 200 /\ resp.body = "stream"

\* C4 witness: a bogus If-None-Match with an If-Modified-Since date at or
\* after the file's modification time, served 200.
C4_Witness ==
    /\ Responded
    /\ hdrs.inm = <<Bogus>>
    /\ hdrs.ims # None /\ hdrs.ims[1].kind = "date"
    /\ meta[1].mtime # None
    /\ TimeLeq(FileTime, Time(hdrs.ims[1].secs, 0))
    /\ resp.status = 200

\* C5: a client that kept the ETag of a 200 and sends it as If-None-Match
\* while the file's size and modification time are those of that 200 is
\* answered 304 with an empty body.
C5_EtagRoundTrip ==
    (/\ Responded
     /\ cache # None
     /\ \E i \in 1 .. Len(hdrs.inm) : hdrs.inm[i] = cache[1].tag
     /\ meta[1].len = cache[1].len
     /\ meta[1].mtime = cache[1].mtime)
        => resp.status = 304 /\ resp.body = "empty" /\ ~StreamStarted

\* C5 witness: the kept ETag replayed alone, answered 304.
C5_Witness ==
    /\ Responded
    /\ cache # None
    /\ hdrs = Headers(<<cache[1].tag>>, None)
    /\ resp.status = 304

\* C6 as stated: without If-None-Match, If-Modified-Since set to the file's
\* modification time as an HTTP date yields 304, and set to one second
\* earlier yields 200.
C6_Claim ==
    (/\ Responded
     /\ hdrs.inm = <<>>
     /\ meta[1].mtime # None
     /\ FileTime.secs >= 0)
        => /\ hdrs.ims = Some(fmt_http_date(FileTime)) => resp.status = 304
           /\ (FileTime.secs >= 1 /\ hdrs.ims = Some(HttpDate(FileTime.secs - 1)))
                 => resp.status = 200

\* the path has the root as its prefix and only names after it
RECURSIVE AllNames(_)
AllNames(segs) ==
    segs = <<>> \/ (Head(segs) \notin {"..", ".", ""} /\ AllNames(Tail(segs)))

IsPrefix(a, b) == Len(a) <= Len(b) /\ SubSeq(b, 1, Len(a)) = a

UnderRoot(p) ==
    /\ p.abs
    /\ IsPrefix(Root.segs, p.segs)
    /\ AllNames(SubSeq(p.segs, Len(Root.segs) + 1, Len(p.segs)))
    /\ IsPrefix(OsResolve(Root), OsResolve(p))

\* C7: whatever segments are requested, the path FileSystemHandler builds
\* is the root or strictly under it: the root's text followed by names
\* only, never ".." and never the root's parent.
C7_TraversalSafety == (handler = "dir" /\ pc # "idle") => UnderRoot(path)

\* C7 witness: a request with ".." pieces resolved under the root.
C7_Witness ==
    /\ handler = "dir" /\ pc # "idle"
    /\ parts = <<Rel(<<"..">>), Rel(<<"..", "secret">>)>>
    /\ path = Abs(<<"srv", "secret">>)

\* C8: normalizing a normalized path changes nothing.
C8_NormalizeIdempotent ==
    (handler = "dir" /\ pc # "idle") => normalize_path(rel) = rel

\* C8 witness: a request whose normalization dropped pieces and kept names.
C8_Witness ==
    /\ handler = "dir" /\ pc # "idle"
    /\ HasParent(parts)
    /\ Len(rel.segs) = 2
    /\ rel # PathFromIter(parts)

\* what the tree holds at the normalized path under the root
AtRel == Lookup(fs, Abs(Root.segs \o rel.segs))

\* C10: two directory requests with the same headers whose segments
\* normalize to the same relative path get the same status (the tree does
\* not change), and a request with ".." pieces whose normalized path is
\* absent under the root gets 404.
C10_NoTraversalSignal ==
    /\ (/\ handler = "dir" /\ resp.status # 0
        /\ prev # None
        /\ prev[1].hdrs = hdrs
        /\ prev[1].rel = rel)
          => resp.status = prev[1].status
    /\ (/\ handler = "dir" /\ resp.status # 0
        /\ HasParent(parts)
        /\ AtRel = Absent)
          => resp.status = 404

\* C10 witness: a request with ".." pieces answered 404 after a request
\* without any for the same normalized path was answered 404.
C10_Witness ==
    /\ handler = "dir" /\ resp.status = 404
    /\ HasParent(parts)
    /\ AtRel = Absent
    /\ prev # None
    /\ ~prev[1].trav
    /\ prev[1].hdrs = hdrs /\ prev[1].rel = rel
    /\ prev[1].status = 404

\* C11: when not_modified answers true, the response is 304 with an empty
\* body and the request is done; the body stream was never created, no
\* read of the file was ever started and the file is closed unread.
C11_NotModifiedNoStream ==
    (Responded /\ not_modified(meta[1], hdrs))
        => /\ resp.status = 304 /\ resp.body = "empty"
           /\ resp.clen = None /\ resp.etag = None
           /\ pc = "done"
           /\ st = "none" /\ rd = "none"
           /\ fpos = 0 /\ emitted = 0 /\ chunks = 0
           /\ file = None

\* C11 witness: a non-empty file, If-Modified-Since at its modification
\* time, answered 304 and done.
C11_Witness ==
    /\ Responded /\ not_modified(meta[1], hdrs)
    /\ hdrs.inm = <<>> /\ hdrs.ims # None
    /\ meta[1].len > 0
    /\ resp.status = 304 /\ pc = "done"

\* C12: when not_modified answers false after a successful open and
\* metadata fetch, the response is 200 with the body stream, Content-Length
\* is the metadata's size, which is also the total length the stream was
\* given, and ETag is present exactly when the entity tag is computable and
\* is then that tag.
C12_OkResponseHeaders ==
    (Responded /\ ~not_modified(meta[1], hdrs))
        => /\ resp.status = 200 /\ resp.body = "stream"
           /\ resp.clen = Some(meta[1].len)
           /\ StreamStarted
           /\ len + emitted = resp.clen[1]
           /\ (resp.etag # None) <=> (entity_tag(meta[1]) # None)
           /\ resp.etag = entity_tag(meta[1])

\* C12 witness: an If-None-Match that does not match, answered 200 with
\* the file's tag, the stream not yet polled.
C12_Witness ==
    /\ Responded /\ ~not_modified(meta[1], hdrs)
    /\ hdrs.inm # <<>>
    /\ resp.status = 200
    /\ resp.etag # None
    /\ resp.clen = Some(1)
    /\ st = "ready" /\ len = 1 /\ emitted = 0

\* the chunk a step emitted, if it emitted one
ChunkEmitted == chunks' = chunks + 1

\* C13: in every state of a stream, remaining + bytes emitted = total
\* length and remaining is not negative; no step of the stream increases
\* remaining; a step that emits a chunk emits between 1 and remaining
\* bytes and takes exactly them off remaining; a step that emits none
\* leaves remaining alone; the stream ends by the clean-end branch only
\* with remaining = 0.
C13_RemainingAccounting ==
    /\ [](StreamStarted =>
            /\ len + emitted = TotalLen
            /\ len >= 0 /\ len <= TotalLen
            /\ st = "end" => len = 0)
    /\ [][(StreamStarted /\ st' # "none") =>
            /\ len' <= len
            /\ ChunkEmitted =>
                 /\ lastChunk' >= 1 /\ lastChunk' <= len
                 /\ emitted' = emitted + lastChunk'
                 /\ len' = len - lastChunk'
            /\ ~ChunkEmitted => (len' = len /\ emitted' = emitted)]_vars

\* C13 witness: a stream that ended cleanly after a chunk that left bytes
\* to come and a read that returned more than was still expected.
C13_Witness ==
    /\ st = "end" /\ len = 0
    /\ chunks >= 2
    /\ fpos > emitted
    /\ emitted = TotalLen

StreamOver == st \in {"end", "eof", "error"}

\* C14: the stream is finite.  With reads that complete and a consumer that
\* keeps polling, a live stream leads to its end or to an error; it never
\* emits more chunks than its total length; a stream of total length 0 has
\* no read started on it (none pending, none completed) and its first
\* completed poll is the end.
C14_StreamFinite ==
    /\ Polling ~> StreamOver
    /\ [](StreamStarted => chunks <= TotalLen)
    /\ []((StreamStarted /\ TotalLen = 0) =>
             /\ st \in {"ready", "end"}
             /\ rd = "none" /\ fpos = 0 /\ chunks = 0)
    /\ [][(Polling /\ TotalLen = 0 /\ st' # st) => st' = "end"]_vars

\* C14 witness: a stream that ended after as many chunks as its total
\* length, which is more than one.
C14_Witness ==
    /\ st = "end"
    /\ TotalLen > 1
    /\ chunks = TotalLen

\* C15: a read that reports 0 bytes while bytes are still expected ends the
\* stream as an end of stream, not as an error: the step emits no chunk and
\* changes neither remaining nor the response, the request is done with
\* its 200, and the stream emits nothing afterwards.
C15_ZeroReadEndsStream ==
    /\ [](rd = "zero" =>
            /\ st = "eof" /\ pc = "done"
            /\ len > 0
            /\ resp.status = 200
            /\ file = None)
    /\ [][(rd' = "zero" /\ rd # "zero") =>
            /\ Polling /\ len # 0
            /\ UNCHANGED <<len, emitted, chunks, lastChunk, fpos, resp>>]_vars
    /\ [][rd = "zero" =>
            \/ st' = "none"
            \/ UNCHANGED <<st, rd, len, emitted, chunks, lastChunk, fpos, resp>>]_vars

\* C15 witness: a file cut short while it streamed: a chunk was emitted,
\* then a read found the end of the file with bytes still expected.
C15_Witness ==
    /\ rd = "zero" /\ st = "eof"
    /\ chunks >= 1
    /\ len > 0
    /\ changed

\* C16: a read that fails while the body streams ends the stream with that
\* error: the response keeps its 200, the failing step emits no chunk and
\* leaves remaining as it was, and afterwards the file is closed, no read
\* is made again and no chunk is emitted.
C16_ReadFailureEndsStream ==
    /\ [](rd = "error" =>
            /\ st = "error" /\ pc = "done"
            /\ resp.status = 200
            /\ file = None)
    /\ [][(rd' = "error" /\ rd # "error") =>
            /\ Polling /\ len # 0
            /\ UNCHANGED <<len, emitted, chunks, lastChunk, fpos, resp>>]_vars
    /\ [][rd = "error" =>
            \/ st' = "none"
            \/ UNCHANGED <<st, rd, len, emitted, chunks, lastChunk, fpos, resp>>]_vars

\* C16 witness: a read failed after a chunk had been emitted and with
\* bytes still expected.
C16_Witness ==
    /\ rd = "error" /\ st = "error"
    /\ chunks >= 1
    /\ len > 0
    /\ resp.status = 200

\* C17: with If-None-Match present, not_modified is true (the answer is
\* 304) exactly when the entity tag is computable and some If-None-Match
\* value is that tag character for character, W/ prefix included; when the
\* tag is not computable it is false (the answer is 200).
C17_NoneMatchVerdict ==
    (Responded /\ hdrs.inm # <<>>)
        => /\ resp.status \in {200, 304}
           /\ (resp.status = 304) <=> not_modified(meta[1], hdrs)
           /\ (resp.status = 304) <=>
                 /\ entity_tag(meta[1]) # None
                 /\ \E i \in 1 .. Len(hdrs.inm) :
                        hdrs.inm[i] = entity_tag(meta[1])[1]
           /\ entity_tag(meta[1]) = None => resp.status = 200
           /\ \A i \in 1 .. Len(hdrs.inm) :
                 (entity_tag(meta[1]) # None /\ resp.status = 200)
                    => hdrs.inm[i] # entity_tag(meta[1])[1]

\* C17 witness: the file's tag sent as the second If-None-Match value,
\* answered 304.
C17_Witness ==
    /\ Responded
    /\ Len(hdrs.inm) = 2
    /\ entity_tag(meta[1]) # None
    /\ hdrs.inm[1] # entity_tag(meta[1])[1]
    /\ hdrs.inm[2] = entity_tag(meta[1])[1]
    /\ resp.status = 304

\* the file's modification time is at or before the whole second s
AtOrBeforeSecond(t, s) == t.secs < s \/ (t.secs = s /\ t.nanos = 0)

\* C18: with If-None-Match absent, not_modified is true (the answer is
\* 304) exactly when If-Modified-Since is present and is a valid HTTP date,
\* the file's modification time is available and that time is at or before
\* the date; with a header that is no date, no modification time, or no
\* conditional header at all it is false (the answer is 200).
C18_ModifiedSinceVerdict ==
    (Responded /\ hdrs.inm = <<>>)
        => /\ resp.status \in {200, 304}
           /\ (resp.status = 304) <=> not_modified(meta[1], hdrs)
           /\ (resp.status = 304) <=>
                 /\ hdrs.ims # None
                 /\ hdrs.ims[1].kind = "date"
                 /\ meta[1].mtime # None
                 /\ AtOrBeforeSecond(FileTime, hdrs.ims[1].secs)
           /\ (hdrs.ims # None /\ hdrs.ims[1].kind # "date") => resp.status = 200
           /\ meta[1].mtime = None => resp.status = 200
           /\ hdrs.ims = None => resp.status = 200

\* C18 witness: If-Modified-Since carrying exactly the file's modification
\* time, a whole second, answered 304.
C18_Witness ==
    /\ Responded /\ hdrs.inm = <<>>
    /\ hdrs.ims # None /\ hdrs.ims[1].kind = "date"
    /\ meta[1].mtime # None
    /\ FileTime = Time(hdrs.ims[1].secs, 0)
    /\ resp.status = 304

\* C19: the tag of a 200 equals a tag the client kept from an earlier 200
\* exactly when the file's size, seconds and nanoseconds are those of that
\* earlier response; a response carries no tag exactly when the file has no
\* modification time or one before the epoch.
C19_TagInjective ==
    /\ (resp.status = 200 /\ resp.etag # None /\ cache # None)
          => (resp.etag[1] = cache[1].tag)
                 <=> /\ meta[1].len = cache[1].len
                     /\ FileTime.secs = cache[1].mtime[1].secs
                     /\ FileTime.nanos = cache[1].mtime[1].nanos
    /\ resp.status = 200
          => (resp.etag = None) <=> (meta[1].mtime = None \/ FileTime.secs < 0)

\* C19 witness: sizes 0x11 and 0x1 with seconds 0x0 and 0x10, whose digits
\* run together to the same string, carry different tags.
C19_Witness ==
    /\ resp.status = 200 /\ resp.etag # None /\ cache # None
    /\ meta[1].len = 17 /\ FileTime.secs = 0
    /\ cache[1].len = 1 /\ cache[1].mtime[1].secs = 16
    /\ FileTime.nanos = cache[1].mtime[1].nanos
    /\ resp.etag[1] # cache[1].tag

\* the components of the path the request's segments make
RequestComps == Components(PathFromIter(parts))

\* the stack of names the claim describes, after the components cs: the
\* stack after all but the last, then the last one's effect
RECURSIVE StackAfter(_)
StackAfter(cs) ==
    IF cs = <<>> THEN <<>>
    ELSE LET below == StackAfter(SubSeq(cs, 1, Len(cs) - 1))
             c == cs[Len(cs)]
         IN IF c.t = "Normal" THEN Append(below, c.x)
            ELSE IF c.t = "ParentDir"
                 THEN (IF below = <<>> THEN <<>>
                       ELSE SubSeq(below, 1, Len(below) - 1))
            ELSE below

\* C20: normalize_path leaves the names of a stack worked left to right: a
\* normal component is put on it, ".." takes the top one off and does
\* nothing to an empty stack, any other component is dropped; a request
\* with no components or only ".." components normalizes to the empty
\* relative path and is resolved to the root itself.
C20_NormalizeIsStack ==
    (handler = "dir" /\ pc # "idle")
        => /\ rel = Rel(StackAfter(RequestComps))
           /\ (\A i \in 1 .. Len(RequestComps) : RequestComps[i].t = "ParentDir")
                 => (rel = EmptyPath /\ path = Root)

\* C20 witness: a request made of ".." pieces only, resolved to the root.
C20_Witness ==
    /\ handler = "dir" /\ pc # "idle"
    /\ Len(RequestComps) = 2
    /\ \A i \in 1 .. Len(RequestComps) : RequestComps[i].t = "ParentDir"
    /\ rel = EmptyPath
    /\ path = Root

=============================================================================
